---- MODULE Spec2Model ----
(***************************************************************************)
(* The useOrbitalMenu hook (gesture controller and arc layout) and the     *)
(* wiring OrbitalMenuButton adds around it, as a state machine.            *)
(*                                                                         *)
(* One action is one handler call together with the render React commits   *)
(* for its state updates.  The passive effect of the hook that derives     *)
(* itemPositions (useEffect) runs after that commit, as a step of its own, *)
(* and requestAnimationFrame callbacks run as a step of the browser.       *)
(* React runs the pending passive effects of a commit before it processes  *)
(* the next update, so no handler runs between a commit and its effect.    *)
(* Date.now() is the variable now, window.innerWidth/innerHeight the       *)
(* variable viewport.  Pointer capture, preventDefault and stopPropagation *)
(* touch no state of the hook and are left out.                            *)
(*                                                                         *)
(* Lengths are CSS pixels, times milliseconds, angles degrees (the source  *)
(* uses radians: -PI/2 is -90, 2*PI is 360).  Math.sqrt(dx^2+dy^2) < c is  *)
(* compared as dx^2+dy^2 < c^2, which is the same for c >= 0.              *)
(***************************************************************************)
EXTENDS Integers, Sequences, FiniteSets, TLC

\* ------------------------------------------------------------------ constants
DEFAULT_RADIUS == 100
DEFAULT_START_ANGLE == 0 - 90
DEFAULT_SWEEP_ANGLE == 360
DEFAULT_BUTTON_SIZE == 50
DEFAULT_BOUNDARY_PADDING == 10
CLICK_THRESHOLD_MS == 200
CLICK_THRESHOLD_PX == 5
\* initialPosition = { x: 100, y: window.innerHeight / 2 }
InitialX == 100
\* itemCount: MENU_ITEMS.length, as OrbitalMenuButton passes it
MenuItemsLength == 4

\* --------------------------------------------------------------------- bounds
\* Date.now() when the hook is constructed (stands for the epoch time).
StartTime == 1000
\* The clock stops advancing here.
MaxTime == 1200
\* requestAnimationFrame hands out ids 1..MaxRafId.
MaxRafId == 3
\* The layout is computed for itemCount in 0..MaxItemCount.
MaxItemCount == 5

\* Steps by which Date.now() advances between two handler calls.
TickSteps == {100}

Pt(px, py) == [x |-> px, y |-> py]

\* window.innerWidth x window.innerHeight: a desktop viewport, and a small one,
\* narrower than the default position of the button and not high enough to
\* contain the padded button.
Viewports == {[w |-> 1000, h |-> 800], [w |-> 120, h |-> 60]}

\* startAngle and sweepAngle props in degrees: the hook's defaults, those of
\* OrbitalMenuButton (-135, 270), and a null, a quarter and a half sweep.
StartAngles == {0 - 90, 0 - 135, 0}
SweepAngles == {0, 90, 180, 270, 360}

\* clientX/clientY of the pointer events.
Points == {Pt(100, 400), Pt(102, 401), Pt(0 - 50, 400)}

\* A keyboard-generated click carries clientX = clientY = 0.
KeyboardPoint == Pt(0, 0)

\* forceState of toggleMenu: a boolean, or left out.
ForceStates == {"true", "false", "undefined"}

\* null of a ref holding a Position: the empty sequence; a position p is <<p>>.
Null == <<>>
Some(p) == <<p>>

Min(a, b) == IF a < b THEN a ELSE b
Max(a, b) == IF a > b THEN a ELSE b
Abs(a) == IF a < 0 THEN 0 - a ELSE a

VARIABLES
  \* configuration (props of the hook)
  itemCount, startAngle, sweepAngle,
  \* React state of the hook
  isOpen, buttonPosition, itemPositions, isDragging,
  \* refs of the hook
  dragStartRef, dragStartTimeRef, dragOffsetRef, animationFrameRef,
  \* environment: the browser's frame-callback list, the id it hands out next,
  \* the clock, the window size, whether the component is mounted, and whether
  \* the item-positions effect has yet to run for the committed render
  rafQueue, nextRafId, now, viewport, mounted, effectPending,
  \* history: the last handler or callback that ran, what isOpen
  \* and dragging were before it, the current gesture, the frame in preparation
  lastOp, openBefore, draggingBefore, gesture, frame

vars == <<itemCount, startAngle, sweepAngle, isOpen, buttonPosition, itemPositions, isDragging,
          dragStartRef, dragStartTimeRef, dragOffsetRef, animationFrameRef,
          rafQueue, nextRafId, now, viewport, mounted, effectPending,
          lastOp, openBefore, draggingBefore, gesture, frame>>

config == <<itemCount, startAngle, sweepAngle>>

\* ---------------------------------------------------------------- rationals
\* The angles of the layout are rationals num/den (den > 0) in degrees, so that
\* sweepAngle / (itemCount - 1) is a division and not a rounding.
Rat(n, d) == [num |-> n, den |-> d]
RatOfInt(i) == Rat(i, 1)
RatAdd(a, b) == Rat(a.num * b.den + b.num * a.den, a.den * b.den)
RatSub(a, b) == Rat(a.num * b.den - b.num * a.den, a.den * b.den)
RatMulInt(a, i) == Rat(a.num * i, a.den)
RatDivInt(a, i) == Rat(a.num, a.den * i)
RatEq(a, b) == a.num * b.den = b.num * a.den
\* a and b differ by a whole number of full turns (360 degrees).
SameDirection(a, b) ==
  (a.num * b.den - b.num * a.den) % (360 * a.den * b.den) = 0

\* ------------------------------------------------------------- layout engine
\* The step with the division by itemCount instead of itemCount - 1.
angleStepOverCount(n) ==
  IF n > 1 THEN RatDivInt(RatOfInt(sweepAngle), n) ELSE RatOfInt(0)

\* angleStep of calculateItemPositions: sweepAngle / (itemCount - 1), or 0.
\* calculateItemPositions closes over the props startAngle and sweepAngle.
angleStep(n) ==
  IF n > 1 THEN RatDivInt(RatOfInt(sweepAngle), n - 1) ELSE RatOfInt(0)

\* The item with the index counted from 1.
itemAtOneBased(cx, cy, n, i) ==
  [cx |-> cx, cy |-> cy, r |-> DEFAULT_RADIUS,
   angle |-> RatAdd(RatOfInt(startAngle),
                    IF n = 1 THEN RatOfInt(0)
                             ELSE RatMulInt(angleStep(n), i + 1))]

\* Item i (0-based) of calculateItemPositions(cx, cy).  The item lies at
\* (cx + r*cos(angle), cy + r*sin(angle)); it is kept in that polar form.
itemAt(cx, cy, n, i) ==
  [cx |-> cx, cy |-> cy, r |-> DEFAULT_RADIUS,
   angle |-> RatAdd(RatOfInt(startAngle),
                    IF n = 1 THEN RatOfInt(0) ELSE RatMulInt(angleStep(n), i))]

calculateItemPositions(cx, cy, n) == [k \in 1..n |-> itemAt(cx, cy, n, k - 1)]

\* The effect as its commented-out alternative would have it: positions kept
\* calculated while closed.
ItemPositionsEffectAlwaysPlaced(open, pos, n) ==
  calculateItemPositions(pos.x, pos.y, n)

\* The hook's useEffect on [isOpen, buttonPosition]: what it passes to
\* setItemPositions.
ItemPositionsEffect(open, pos, n) ==
  IF open THEN calculateItemPositions(pos.x, pos.y, n) ELSE <<>>

\* An effect whose dependencies leave buttonPosition out.
effectDepsOpenOnly(openChanged, positionSet) == openChanged

\* Whether the effect runs again after a render: its dependencies are isOpen
\* and buttonPosition (calculateItemPositions changes with the props only), and
\* setButtonPosition is always given a new object.
effectDeps(openChanged, positionSet) == openChanged \/ positionSet

\* ------------------------------------------------------- gesture classification
DistanceSq(a, b) == (b.x - a.x) * (b.x - a.x) + (b.y - a.y) * (b.y - a.y)

\* distanceMoved, squared: 0 when dragStartRef.current is null.
distanceMovedSq(start, p) == IF start = Null THEN 0 ELSE DistanceSq(start[1], p)

\* The threshold test with the duration comparison turned around.
IsClickInverted(duration, distSq) ==
  duration > CLICK_THRESHOLD_MS /\ distSq < CLICK_THRESHOLD_PX * CLICK_THRESHOLD_PX

\* duration < CLICK_THRESHOLD_MS && distanceMoved < CLICK_THRESHOLD_PX
IsClick(duration, distSq) ==
  duration < CLICK_THRESHOLD_MS /\ distSq < CLICK_THRESHOLD_PX * CLICK_THRESHOLD_PX

\* Whether handleClick, called at time t with an event at p, toggles.
clickToggles(start, startTime, p, t) ==
  IsClick(t - startTime, distanceMovedSq(start, p))

\* A pointer-up that toggles the menu itself when the gesture was a tap.
pointerUpTogglesOnTap(open, duration, distSq) ==
  IF IsClick(duration, distSq) THEN ~open ELSE open

\* isOpen after handlePointerUp: it computes the duration and the distance of
\* the gesture and compares them with the thresholds, and both branches of the
\* comparison are empty.
pointerUpOpen(open, duration, distSq) == open

\* toggleMenu ignoring forceState.
toggleMenuAlwaysFlips(prev, forceState) == ~prev

\* The updater toggleMenu passes to setIsOpen.
toggleMenuResult(prev, forceState) ==
  IF forceState = "true" THEN TRUE
  ELSE IF forceState = "false" THEN FALSE
  ELSE ~prev

\* ------------------------------------------------------------ viewport clamp
\* The clamp without its Math.max.
ClampNoLowerBound(v, lo, hi) == Min(v, hi)

\* An outside-click listener that closes the menu wherever the pointer went
\* down.
handleOutsideClickAnywhere(open, inButton, inMenu) ==
  IF open THEN toggleMenuResult(open, "false") ELSE open

\* isOpen after handleOutsideClick, the document's pointerdown listener of
\* OrbitalMenuButton, for a target inside the button (inButton) or inside the
\* items' container (inMenu); both refs are set while the component is mounted.
handleOutsideClick(open, inButton, inMenu) ==
  IF open /\ ~inButton /\ ~inMenu THEN toggleMenuResult(open, "false") ELSE open

\* A clamp by two comparisons: lo below lo, hi above hi.
ClampByBranches(v, lo, hi) == IF v < lo THEN lo ELSE IF v > hi THEN hi ELSE v

\* Math.max(lo, Math.min(v, hi))
Clamp(v, lo, hi) == Max(lo, Min(v, hi))

halfButton == DEFAULT_BUTTON_SIZE \div 2
minX == halfButton + DEFAULT_BOUNDARY_PADDING
maxX(vp) == vp.w - halfButton - DEFAULT_BOUNDARY_PADDING
minY == halfButton + DEFAULT_BOUNDARY_PADDING
maxY(vp) == vp.h - halfButton - DEFAULT_BOUNDARY_PADDING

\* The position the frame callback passes to setButtonPosition for a move
\* event at p.
constrainedPosition(p, offset, vp) ==
  Pt(Clamp(p.x - offset.x, minX, maxX(vp)), Clamp(p.y - offset.y, minY, maxY(vp)))

\* --------------------------------------------------------- frame scheduling
\* A cancelAnimationFrame that cancels nothing.
CancelNothing(queue, id) == queue

\* A cancelAnimationFrame that cancels the callbacks older than the one named.
CancelOlder(queue, id) == {c \in queue : c.id >= id}

\* cancelAnimationFrame(id)
cancelAnimationFrame(queue, id) == {c \in queue : c.id # id}

\* The callbacks of the queue the browser runs last in a frame.
LastCallback(queue) == CHOOSE c \in queue : \A d \in queue : d.id <= c.id

\* handlePointerMove without its early return.
PointerMoveAlwaysActive(dragging, start) == TRUE

\* handlePointerMove's early return, negated.
PointerMoveActive(dragging, start) == dragging /\ start # Null

\* handlePointerUp without its early return.
PointerUpAlwaysActive(dragging) == TRUE

\* handlePointerUp's early return, negated.
PointerUpActive(dragging) == dragging

\* The button's bounding rectangle holds p (the browser delivers a pointer-down
\* to the button only there); the rectangle is centred on buttonPosition.
OnButton(p, pos) ==
  Abs(p.x - pos.x) <= halfButton /\ Abs(p.y - pos.y) <= halfButton

\* ---------------------------------------------------------------- history
\* The pointer gesture in progress: isOpen before its pointer-down, where the
\* pointer went down and up, and when; whether its click was handled, when, and
\* whether the click came before the pointer-up.
NoGesture ==
  [phase |-> "none", open0 |-> FALSE, down |-> Pt(0, 0), downT |-> 0,
   up |-> Pt(0, 0), upT |-> 0, clicked |-> FALSE, clickT |-> 0,
   clickFirst |-> FALSE, prev |-> Null]

\* The fields of the gesture session held in the refs.
Session(start, time, offset) == [start |-> start, time |-> time, offset |-> offset]

\* A gesture whose pointer-up and click were both handled is over.  prev is
\* the session a pointer-down found active; it is kept for one step.
SettleGesture(g) ==
  IF g.phase = "up" /\ g.clicked THEN NoGesture ELSE [g EXCEPT !.prev = Null]

\* A keyboard click or a toggleMenu call inside a gesture ends the history of
\* that gesture: what isOpen is afterwards is no longer the gesture's doing.
Interfere(g) == NoGesture

\* The frame in preparation: how many pointer-moves scheduled a recomputation
\* since the last frame or release, and the point of the last of them; and, of
\* the frame that just ran, how many position updates it made and how many
\* moves it served.
NoFrame ==
  [moves |-> 0, last |-> Null, updates |-> 0, coalesced |-> 0, discarded |-> 0]

SettleFrame(f) ==
  IF f.moves = 0 THEN NoFrame ELSE [f EXCEPT !.updates = 0, !.coalesced = 0, !.discarded = 0]

\* -------------------------------------------------------------------- Init
\* The state after the first render of the hook called with the props
\* itemCount = n, startAngle = start, sweepAngle = sweep.
InitWith(n, start, sweep) ==
  /\ itemCount = n
  /\ startAngle = start
  /\ sweepAngle = sweep
  /\ viewport \in Viewports
  /\ isOpen = FALSE
  /\ buttonPosition = Pt(InitialX, viewport.h \div 2)
  /\ itemPositions = <<>>
  /\ isDragging = FALSE
  /\ dragStartRef = Null
  /\ dragStartTimeRef = 0
  /\ dragOffsetRef = Pt(0, 0)
  /\ animationFrameRef = 0
  /\ rafQueue = {}
  /\ nextRafId = 1
  /\ now = StartTime
  /\ mounted = TRUE
  /\ effectPending = TRUE
  /\ lastOp = "init"
  /\ openBefore = FALSE
  /\ draggingBefore = FALSE
  /\ gesture = NoGesture
  /\ frame = NoFrame

\* The hook as OrbitalMenuButton calls it with the defaults of the hook.
Init == InitWith(MenuItemsLength, DEFAULT_START_ANGLE, DEFAULT_SWEEP_ANGLE)

\* ------------------------------------------------------------------ actions
\* handlePointerDown, for a pointer-down at p on the button; the document's
\* listener handleOutsideClick sees the same event, its target in the button.  The button is
\* mounted, so buttonRef.current gives its bounding rectangle, whose centre is
\* buttonPosition as rendered.
PointerDown(p) ==
  /\ mounted
  /\ ~effectPending
  /\ OnButton(p, buttonPosition)
  /\ isDragging' = TRUE
  /\ dragStartTimeRef' = now
  /\ dragStartRef' = Some(p)
  /\ dragOffsetRef' = Pt(p.x - buttonPosition.x, p.y - buttonPosition.y)
  /\ lastOp' = "pointerdown"
  /\ openBefore' = isOpen
  /\ draggingBefore' = isDragging
  /\ gesture' = [NoGesture EXCEPT
                   !.phase = "down", !.open0 = isOpen, !.down = p, !.downT = now,
                   !.prev = IF isDragging
                              THEN Some(Session(dragStartRef, dragStartTimeRef,
                                                dragOffsetRef))
                              ELSE Null]
  /\ frame' = SettleFrame(frame)
  /\ isOpen' = handleOutsideClick(isOpen, TRUE, FALSE)
  /\ effectPending' = (effectPending \/ isOpen' # isOpen)
  /\ UNCHANGED <<config, buttonPosition, itemPositions, animationFrameRef,
                 rafQueue, nextRafId, now, viewport, mounted>>

\* handlePointerMove, for a pointer-move at p.
PointerMove(p) ==
  /\ mounted
  /\ ~effectPending
  /\ lastOp' = "pointermove"
  /\ openBefore' = isOpen
  /\ draggingBefore' = isDragging
  /\ gesture' = SettleGesture(gesture)
  /\ IF PointerMoveActive(isDragging, dragStartRef)
       THEN /\ nextRafId <= MaxRafId
            /\ rafQueue' = (IF animationFrameRef # 0
                              THEN cancelAnimationFrame(rafQueue, animationFrameRef)
                              ELSE rafQueue)
                           \cup {[id |-> nextRafId, x |-> p.x, y |-> p.y]}
            /\ animationFrameRef' = nextRafId
            /\ nextRafId' = nextRafId + 1
            /\ frame' = [SettleFrame(frame) EXCEPT !.moves = frame.moves + 1,
                                                   !.last = Some(p)]
       ELSE /\ frame' = SettleFrame(frame)
            /\ UNCHANGED <<rafQueue, animationFrameRef, nextRafId>>
  /\ UNCHANGED <<config, isOpen, buttonPosition, itemPositions, isDragging,
                 dragStartRef, dragStartTimeRef, dragOffsetRef, now, viewport,
                 mounted, effectPending>>

\* handlePointerUp, for a pointer-up (kind "pointerup") or a pointer-cancel
\* (kind "pointercancel") at p: both events are bound to it.  No click event
\* follows a pointer-cancel.
PointerUp(p, kind) ==
  /\ mounted
  /\ ~effectPending
  /\ lastOp' = "pointerup"
  /\ openBefore' = isOpen
  /\ draggingBefore' = isDragging
  /\ IF PointerUpActive(isDragging)
       THEN /\ rafQueue' = (IF animationFrameRef # 0
                              THEN cancelAnimationFrame(rafQueue, animationFrameRef)
                              ELSE rafQueue)
            /\ animationFrameRef' = 0
            /\ isDragging' = FALSE
            /\ dragStartRef' = Null
            /\ isOpen' = pointerUpOpen(isOpen, now - dragStartTimeRef,
                                       distanceMovedSq(dragStartRef, p))
            /\ frame' = [NoFrame EXCEPT !.discarded = Cardinality(rafQueue)]
            /\ gesture' = IF gesture.phase = "down" /\ kind = "pointerup"
                            THEN [gesture EXCEPT !.phase = "up", !.up = p,
                                                 !.upT = now, !.prev = Null]
                            ELSE NoGesture
       ELSE /\ frame' = SettleFrame(frame)
            /\ gesture' = SettleGesture(gesture)
            /\ UNCHANGED <<isOpen, rafQueue, animationFrameRef, isDragging,
                           dragStartRef>>
  /\ effectPending' = (effectPending \/ isOpen' # isOpen)
  /\ UNCHANGED <<config, buttonPosition, itemPositions, dragStartTimeRef,
                 dragOffsetRef, nextRafId, now, viewport, mounted>>

\* handleClick for an event at p: the state part.
handleClick(p) ==
  /\ isOpen' = IF clickToggles(dragStartRef, dragStartTimeRef, p, now)
                 THEN ~isOpen ELSE isOpen
  /\ effectPending' = (effectPending \/ isOpen' # isOpen)
  /\ openBefore' = isOpen
  /\ draggingBefore' = isDragging
  /\ frame' = SettleFrame(frame)
  /\ UNCHANGED <<config, buttonPosition, itemPositions, isDragging,
                 dragStartRef, dragStartTimeRef, dragOffsetRef,
                 animationFrameRef, rafQueue, nextRafId, now, viewport, mounted>>

\* The click event of the current pointer gesture, at p.
Click(p) ==
  /\ mounted
  /\ ~effectPending
  /\ gesture.phase # "none"
  /\ ~gesture.clicked
  /\ handleClick(p)
  /\ lastOp' = "click"
  /\ gesture' = [gesture EXCEPT !.clicked = TRUE, !.clickT = now,
                                !.clickFirst = (gesture.phase = "down"),
                                !.prev = Null]

\* A click event from keyboard activation of the button.
KeyboardClick ==
  /\ mounted
  /\ ~effectPending
  /\ handleClick(KeyboardPoint)
  /\ lastOp' = "keyclick"
  /\ gesture' = Interfere(SettleGesture(gesture))

\* toggleMenu(forceState)
ToggleMenu(forceState) ==
  /\ mounted
  /\ ~effectPending
  /\ isOpen' = toggleMenuResult(isOpen, forceState)
  /\ effectPending' = (effectPending \/ isOpen' # isOpen)
  /\ lastOp' = "toggleMenu_" \o forceState
  /\ openBefore' = isOpen
  /\ draggingBefore' = isDragging
  /\ gesture' = Interfere(SettleGesture(gesture))
  /\ frame' = SettleFrame(frame)
  /\ UNCHANGED <<config, buttonPosition, itemPositions, isDragging,
                 dragStartRef, dragStartTimeRef, dragOffsetRef,
                 animationFrameRef, rafQueue, nextRafId, now, viewport, mounted>>

\* A pointer-down away from the button reaches the document's listener
\* handleOutsideClick only: on one of the items (target "item", inside the
\* items' container, when items are rendered) or elsewhere on the page (target
\* "outside": the container itself lets pointer events through).
DocumentPointerDown(target) ==
  /\ mounted
  /\ ~effectPending
  /\ target = "item" => itemPositions # <<>>
  /\ isOpen' = handleOutsideClick(isOpen, FALSE, target = "item")
  /\ effectPending' = (effectPending \/ isOpen' # isOpen)
  /\ lastOp' = "docdown_" \o target
  /\ openBefore' = isOpen
  /\ draggingBefore' = isDragging
  /\ gesture' = Interfere(SettleGesture(gesture))
  /\ frame' = SettleFrame(frame)
  /\ UNCHANGED <<config, buttonPosition, itemPositions, isDragging,
                 dragStartRef, dragStartTimeRef, dragOffsetRef,
                 animationFrameRef, rafQueue, nextRafId, now, viewport, mounted>>

\* onClick of a rendered item: toggleMenu(false).
ItemClick ==
  /\ mounted
  /\ ~effectPending
  /\ itemPositions # <<>>
  /\ isOpen' = toggleMenuResult(isOpen, "false")
  /\ effectPending' = (effectPending \/ isOpen' # isOpen)
  /\ lastOp' = "itemclick"
  /\ openBefore' = isOpen
  /\ draggingBefore' = isDragging
  /\ gesture' = Interfere(SettleGesture(gesture))
  /\ frame' = SettleFrame(frame)
  /\ UNCHANGED <<config, buttonPosition, itemPositions, isDragging,
                 dragStartRef, dragStartTimeRef, dragOffsetRef,
                 animationFrameRef, rafQueue, nextRafId, now, viewport, mounted>>

\* The hook's item-positions effect runs for the committed render.
RunEffect ==
  /\ mounted
  /\ effectPending
  /\ itemPositions' = ItemPositionsEffect(isOpen, buttonPosition, itemCount)
  /\ effectPending' = FALSE
  /\ lastOp' = "effect"
  /\ openBefore' = isOpen
  /\ draggingBefore' = isDragging
  /\ gesture' = SettleGesture(gesture)
  /\ frame' = SettleFrame(frame)
  /\ UNCHANGED <<config, isOpen, buttonPosition, isDragging, dragStartRef,
                 dragStartTimeRef, dragOffsetRef, animationFrameRef, rafQueue,
                 nextRafId, now, viewport, mounted>>

\* The browser runs the frame: every callback of rafQueue, in the order they
\* were requested.  React drops setButtonPosition of an unmounted component.
RunFrame ==
  /\ rafQueue # {}
  /\ ~effectPending
  /\ rafQueue' = {}
  /\ IF mounted
       THEN /\ buttonPosition' =
                 constrainedPosition(LastCallback(rafQueue), dragOffsetRef, viewport)
            /\ effectPending' = effectDeps(FALSE, TRUE)
       ELSE UNCHANGED <<buttonPosition, effectPending>>
  /\ frame' = [moves |-> 0, last |-> frame.last,
               updates |-> Cardinality(rafQueue), coalesced |-> frame.moves,
               discarded |-> 0]
  /\ lastOp' = "frame"
  /\ openBefore' = isOpen
  /\ draggingBefore' = isDragging
  /\ gesture' = SettleGesture(gesture)
  /\ UNCHANGED <<config, isOpen, itemPositions, isDragging, dragStartRef,
                 dragStartTimeRef, dragOffsetRef, animationFrameRef, nextRafId,
                 now, viewport, mounted>>

\* Date.now() advances.
Tick(d) ==
  /\ mounted
  /\ now + d <= MaxTime
  /\ now' = now + d
  /\ UNCHANGED <<config, isOpen, buttonPosition, itemPositions, isDragging,
                 dragStartRef, dragStartTimeRef, dragOffsetRef,
                 animationFrameRef, rafQueue, nextRafId, viewport, mounted,
                 effectPending, lastOp, openBefore, draggingBefore, gesture,
                 frame>>

\* The window is resized.
Resize(vp) ==
  /\ mounted
  /\ vp # viewport
  /\ viewport' = vp
  /\ frame' = SettleFrame(frame)
  /\ UNCHANGED <<config, isOpen, buttonPosition, itemPositions, isDragging,
                 dragStartRef, dragStartTimeRef, dragOffsetRef,
                 animationFrameRef, rafQueue, nextRafId, now, mounted,
                 effectPending, lastOp, openBefore, draggingBefore, gesture>>

\* OrbitalMenuButton is unmounted: the cleanup of its effects removes the
\* window listeners; the hook registers no cleanup.
Unmount ==
  /\ mounted
  /\ ~effectPending
  /\ mounted' = FALSE
  /\ lastOp' = "unmount"
  /\ openBefore' = isOpen
  /\ draggingBefore' = isDragging
  /\ gesture' = NoGesture
  /\ frame' = SettleFrame(frame)
  /\ UNCHANGED <<config, isOpen, buttonPosition, itemPositions, isDragging,
                 dragStartRef, dragStartTimeRef, dragOffsetRef,
                 animationFrameRef, rafQueue, nextRafId, now, viewport,
                 effectPending>>

Next ==
  \/ \E p \in Points : PointerDown(p)
  \/ \E p \in Points : PointerMove(p)
  \/ \E p \in Points, kind \in {"pointerup", "pointercancel"} : PointerUp(p, kind)
  \/ \E p \in Points : Click(p)
  \/ KeyboardClick
  \/ \E f \in ForceStates : ToggleMenu(f)
  \/ \E target \in {"item", "outside"} : DocumentPointerDown(target)
  \/ ItemClick
  \/ RunEffect
  \/ RunFrame
  \/ \E d \in TickSteps : Tick(d)
  \/ \E vp \in Viewports : Resize(vp)
  \/ Unmount

Spec == Init /\ [][Next]_vars

\* ------------------------------------------------------------------- layout
\* The layout of the items for every configuration: the hook is called with
\* any itemCount, startAngle and sweepAngle, the menu is opened and closed and
\* the item-positions effect applies calculateItemPositions.
InitLayout ==
  \E n \in 0..MaxItemCount, start \in StartAngles, sweep \in SweepAngles :
    InitWith(n, start, sweep)

NextLayout ==
  \/ \E f \in ForceStates : ToggleMenu(f)
  \/ RunEffect

SpecLayout == InitLayout /\ [][NextLayout]_vars

\* --------------------------------------------------------------------- drag
\* The drag alone: pointer-downs, moves and releases, the frames and the
\* effect they cause, and resizes of the window; no click and no clock.
NextDrag ==
  \/ \E p \in Points : PointerDown(p)
  \/ \E p \in Points : PointerMove(p)
  \/ \E p \in Points, kind \in {"pointerup", "pointercancel"} : PointerUp(p, kind)
  \/ RunEffect
  \/ RunFrame
  \/ \E vp \in Viewports : Resize(vp)

SpecDrag == Init /\ [][NextDrag]_vars

\* --------------------------------------------------------------- scheduling
\* Every event at one reading of the clock: Date.now() is read by the tap test
\* of handleClick only, and clicks that toggle and clicks that do not both
\* remain.
NextFair ==
  \/ \E p \in Points : PointerDown(p)
  \/ \E p \in Points : PointerMove(p)
  \/ \E p \in Points, kind \in {"pointerup", "pointercancel"} : PointerUp(p, kind)
  \/ \E p \in Points : Click(p)
  \/ KeyboardClick
  \/ \E f \in ForceStates : ToggleMenu(f)
  \/ \E target \in {"item", "outside"} : DocumentPointerDown(target)
  \/ ItemClick
  \/ RunEffect
  \/ RunFrame
  \/ \E vp \in Viewports : Resize(vp)
  \/ Unmount

\* React runs the passive effects of a committed render before it handles
\* anything else: the item-positions effect is not postponed for ever.
SpecFair == Init /\ [][NextFair]_vars /\ WF_vars(RunEffect)


\* ------------------------------------------------------------------ claims
ThresholdPxSq == CLICK_THRESHOLD_PX * CLICK_THRESHOLD_PX

\* The state right after the click of a gesture handled in the order
\* pointer-down, pointer-up, click.
AfterGestureClick ==
  /\ lastOp = "click"
  /\ gesture.phase = "up"
  /\ gesture.clicked
  /\ ~gesture.clickFirst

\* C1: a gesture pointer-down, pointer-up, click whose pointer travelled more
\* than CLICK_THRESHOLD_PX between down and up, or whose click comes more than
\* CLICK_THRESHOLD_MS after the pointer-down, leaves isOpen as it was before
\* the pointer-down.
C1_DragLeavesOpenUnchanged ==
  (/\ AfterGestureClick
   /\ \/ DistanceSq(gesture.down, gesture.up) > ThresholdPxSq
      \/ gesture.clickT - gesture.downT > CLICK_THRESHOLD_MS)
  => isOpen = gesture.open0

C3_KeyboardClickToggles ==
  (lastOp = "keyclick" /\ dragStartRef = Null) => isOpen # openBefore

\* C4: the final isOpen of a gesture does not depend on which of click and
\* pointer-up is handled first: a gesture handled pointer-up first ends with
\* the isOpen that handling its click first, at the same point and the same
\* time, decides.
C4_OrderIndependent ==
  AfterGestureClick =>
    isOpen = (IF clickToggles(Some(gesture.down), gesture.downT, gesture.up,
                              gesture.clickT)
                THEN ~gesture.open0 ELSE gesture.open0)

\* C5: in every state the consumer sees, itemPositions is empty when isOpen is
\* false and holds itemCount entries when isOpen is true.
C5_ItemsFollowOpenInSameUpdate ==
  mounted =>
    /\ isOpen => Len(itemPositions) = itemCount
    /\ ~isOpen => itemPositions = <<>>

\* C5, amended: once the item-positions effect has run for the committed
\* render, itemPositions is empty when isOpen is false and holds itemCount
\* entries when isOpen is true.
C5_ItemsFollowOpenAfterEffect ==
  (mounted /\ ~effectPending) =>
    /\ isOpen => Len(itemPositions) = itemCount
    /\ ~isOpen => itemPositions = <<>>

\* The effect ran for a render that closed the menu, and emptied the list.
C5_Witness ==
  /\ lastOp = "effect"
  /\ ~effectPending
  /\ ~isOpen
  /\ itemPositions = <<>>
  /\ buttonPosition # Pt(InitialX, viewport.h \div 2)
  /\ itemCount > 0

\* A frame just ran, while the component is mounted.
FrameJustRan == mounted /\ lastOp = "frame" /\ frame.updates > 0

\* C6: at most one recomputation is pending at any moment, and the frame that
\* serves k >= 1 pointer-moves makes exactly one position update, from the
\* point of the last of them.
C6_OneUpdatePerFrame ==
  /\ Cardinality(rafQueue) <= 1
  /\ FrameJustRan =>
       /\ frame.updates = 1
       /\ frame.coalesced >= 1
       /\ frame.last # Null
       /\ buttonPosition = constrainedPosition(frame.last[1], dragOffsetRef, viewport)

\* Three pointer-moves served by one frame.
C6_Witness ==
  /\ FrameJustRan
  /\ frame.coalesced = 3
  /\ frame.updates = 1
  /\ frame.last = Some(Pt(102, 401))
  /\ buttonPosition = Pt(102, 401)

\* The target of the frame that just ran: pointer minus pointerOffset.
TargetX == frame.last[1].x - dragOffsetRef.x
TargetY == frame.last[1].y - dragOffsetRef.y

\* v clamped into [lo, hi], stated without Clamp.
IsClamped(r, v, lo, hi) ==
  /\ (lo <= v /\ v <= hi) => r = v
  /\ (v < lo /\ lo <= hi) => r = lo
  /\ (v > hi /\ lo <= hi) => r = hi

\* C7: every position update of a frame puts each axis at pointer minus
\* pointerOffset clamped into [min, max], so that the position lies in
\* [min, max] on both axes.
C7_UpdateInsideBounds ==
  (FrameJustRan /\ frame.last # Null) =>
    /\ IsClamped(buttonPosition.x, TargetX, minX, maxX(viewport))
    /\ IsClamped(buttonPosition.y, TargetY, minY, maxY(viewport))
    /\ minX <= buttonPosition.x /\ buttonPosition.x <= maxX(viewport)
    /\ minY <= buttonPosition.y /\ buttonPosition.y <= maxY(viewport)

\* C7, amended: every position update of a frame puts each axis at pointer
\* minus pointerOffset clamped into [min, max]; the position lies in [min, max]
\* on every axis whose interval is not empty, and at min on an axis whose
\* viewport extent is too small for the interval to hold anything.
C7_UpdateClamped ==
  (FrameJustRan /\ frame.last # Null) =>
    /\ IsClamped(buttonPosition.x, TargetX, minX, maxX(viewport))
    /\ IsClamped(buttonPosition.y, TargetY, minY, maxY(viewport))
    /\ minX <= maxX(viewport) =>
         (minX <= buttonPosition.x /\ buttonPosition.x <= maxX(viewport))
    /\ minY <= maxY(viewport) =>
         (minY <= buttonPosition.y /\ buttonPosition.y <= maxY(viewport))
    /\ minX > maxX(viewport) => buttonPosition.x = minX
    /\ minY > maxY(viewport) => buttonPosition.y = minY

\* Viewport 1000x800, padding 10, button 50: a drag to (-50, 400) ends at
\* (35, 400).
C7_Witness ==
  /\ FrameJustRan
  /\ viewport = [w |-> 1000, h |-> 800]
  /\ frame.last = Some(Pt(0 - 50, 400))
  /\ dragOffsetRef = Pt(0, 0)
  /\ buttonPosition = Pt(35, 400)

\* C8: once the component is unmounted no recomputation is pending and none
\* runs.
C8_NoFrameAfterTeardown ==
  ~mounted => (rafQueue = {} /\ lastOp # "frame")

\* C9: toggleMenu(true) leaves isOpen true, toggleMenu(false) leaves it false,
\* toggleMenu() negates it, and none of them changes buttonPosition or
\* isDragging.
C9_SetOpen ==
  [][\A f \in ForceStates :
       ToggleMenu(f) =>
         /\ f = "true" => isOpen'
         /\ f = "false" => ~isOpen'
         /\ f = "undefined" => isOpen' = ~isOpen
         /\ UNCHANGED <<buttonPosition, isDragging>>]_vars

\* toggleMenu(false) closed an open menu in the middle of a drag.
C9_Witness ==
  /\ lastOp = "toggleMenu_false"
  /\ openBefore
  /\ ~isOpen
  /\ isDragging

\* C10: handlePointerUp (pointer-up or pointer-cancel) and handlePointerMove
\* called while not dragging change nothing of the hook's state.
C10_NoSessionNoOp ==
  [][(/\ ~isDragging
      /\ \/ \E p \in Points, kind \in {"pointerup", "pointercancel"} : PointerUp(p, kind)
         \/ \E p \in Points : PointerMove(p))
     => UNCHANGED <<isOpen, isDragging, buttonPosition, itemPositions,
                    dragStartRef, dragStartTimeRef, dragOffsetRef,
                    animationFrameRef, rafQueue, nextRafId, effectPending>>]_vars

\* A pointer-move was handled while idle, with the menu open.
C10_Witness ==
  /\ lastOp = "pointermove"
  /\ ~draggingBefore
  /\ ~isDragging
  /\ isOpen
  /\ rafQueue = {}

\* The items are laid out: the menu is open and the effect has run.
ItemsPlaced == mounted /\ isOpen /\ ~effectPending

\* C11: for itemCount = N > 1 the layout has exactly N entries in index
\* order, item 0 is at startAngle, item N-1 is at startAngle + sweepAngle and
\* consecutive items differ by sweepAngle / (N - 1).
C11_EvenSpacing ==
  (ItemsPlaced /\ itemCount > 1) =>
    /\ Len(itemPositions) = itemCount
    /\ RatEq(itemPositions[1].angle, RatOfInt(startAngle))
    /\ RatEq(itemPositions[itemCount].angle, RatOfInt(startAngle + sweepAngle))
    /\ \A i \in 1..(itemCount - 1) :
         RatEq(RatSub(itemPositions[i + 1].angle, itemPositions[i].angle),
               Rat(sweepAngle, itemCount - 1))

\* Five items over a sweep of 270 degrees: the step 270/4 is not a whole
\* number of degrees.
C11_Witness ==
  ItemsPlaced /\ itemCount = 5 /\ sweepAngle = 270 /\ Len(itemPositions) = 5

\* The clamp of the frame callback applied to a position that needs no offset.
clampPosition(p, vp) == constrainedPosition(p, Pt(0, 0), vp)

\* p lies within the bounds of the viewport on both axes.
WithinBounds(p, vp) ==
  /\ minX <= p.x /\ p.x <= maxX(vp)
  /\ minY <= p.y /\ p.y <= maxY(vp)

\* Values that realise every order of v, lo and hi, lo > hi included.
ClampOrders == 0..2

\* C12: the clamp is idempotent, clamp(clamp(p)) = clamp(p), also where the
\* viewport is too small for the bounds (lo > hi), and clamp(p) = p for p
\* within the bounds: for every position a frame has set and for the position
\* of every state, in the viewport of that state, and for v, lo, hi in every
\* order.
C12_ClampIdempotent ==
  /\ FrameJustRan => clampPosition(buttonPosition, viewport) = buttonPosition
  /\ \A vp \in Viewports :
       /\ clampPosition(clampPosition(buttonPosition, vp), vp)
            = clampPosition(buttonPosition, vp)
       /\ WithinBounds(buttonPosition, vp) =>
            clampPosition(buttonPosition, vp) = buttonPosition
  /\ \A v \in ClampOrders, lo \in ClampOrders, hi \in ClampOrders :
       /\ Clamp(Clamp(v, lo, hi), lo, hi) = Clamp(v, lo, hi)
       /\ (lo <= v /\ v <= hi) => Clamp(v, lo, hi) = v

\* A frame has clamped a position in the viewport of 120x60, whose bounds are
\* empty (min 35 > max 25) on the y axis.
C12_Witness ==
  /\ FrameJustRan
  /\ minY > maxY(viewport)
  /\ buttonPosition.y = minY
  /\ WithinBounds(Pt(buttonPosition.x, minY), [viewport EXCEPT !.h = 800])

\* The state right after a pointer-up or pointer-cancel handled while dragging.
Released == mounted /\ lastOp = "pointerup" /\ draggingBefore

\* C13: a pointer-up or pointer-cancel handled while dragging leaves isDragging
\* false, the start point cleared and no recomputation pending, so that the
\* pointer-move whose recomputation had not run is discarded; and while not
\* dragging (from the release to the next pointer-down) no step changes
\* buttonPosition.
C13_ReleaseEndsDrag ==
  /\ [](Released =>
         (~isDragging /\ dragStartRef = Null /\ animationFrameRef = 0
            /\ rafQueue = {}))
  /\ [][~isDragging => buttonPosition' = buttonPosition]_vars

\* A release that cancelled the recomputation of a pointer-move.
C13_Witness ==
  Released /\ frame.discarded = 1 /\ rafQueue = {} /\ ~isDragging

\* C14: a pointer-down handled while dragging leaves the start point, the
\* start time and the pointer offset of the active session unchanged.
C14_NoSecondSession ==
  (lastOp = "pointerdown" /\ draggingBefore) =>
    gesture.prev = Some(Session(dragStartRef, dragStartTimeRef, dragOffsetRef))

\* The values dragStartTimeRef can hold: its initial value and every Date.now().
StartTimes == {0} \cup (StartTime..MaxTime)

\* C15: a click handled after the pointer-up that ended the gesture decides
\* without the fields of the ended session: whether it toggles isOpen is the
\* same for every start time that session could have had.
C15_ClickIgnoresEndedSession ==
  AfterGestureClick =>
    \A t0 \in StartTimes :
      (isOpen # openBefore)
        = clickToggles(dragStartRef, t0, gesture.up, gesture.clickT)

\* The handlers that call setIsOpen: handleClick and toggleMenu, the latter
\* called by the consumer, by the outside-click listener and by the items.
OpenSetters ==
  {"click", "keyclick", "docdown_outside", "itemclick"}
    \cup {"toggleMenu_" \o f : f \in ForceStates}

\* C16: no step of handlePointerDown, handlePointerMove or handlePointerUp
\* (pointer-up and pointer-cancel) changes isOpen; a step that changes isOpen
\* is a step of handleClick or of toggleMenu.
C16_PointerHandlersKeepOpen ==
  [][/\ lastOp' \in {"pointerdown", "pointermove", "pointerup"} =>
          isOpen' = isOpen
     /\ isOpen' # isOpen => lastOp' \in OpenSetters]_vars

\* The release of a tap (no travel, under 200 ms) with the menu open: the
\* menu is still open.
C16_Witness ==
  /\ Released
  /\ gesture.phase = "up"
  /\ gesture.up = gesture.down
  /\ gesture.upT - gesture.downT < CLICK_THRESHOLD_MS
  /\ isOpen

\* C17: once the item-positions effect has run, itemPositions is the layout
\* of the current buttonPosition when isOpen is true, also after the position
\* updates of a drag while open, and is empty when isOpen is false; and after
\* every change of isOpen or buttonPosition the effect eventually runs.
C17_ItemsFollowAnchor ==
  /\ []((mounted /\ ~effectPending) =>
         IF isOpen
           THEN /\ Len(itemPositions) = itemCount
                /\ \A k \in 1..itemCount :
                     itemPositions[k]
                       = itemAt(buttonPosition.x, buttonPosition.y, itemCount, k - 1)
           ELSE itemPositions = <<>>)
  /\ (mounted /\ effectPending) ~> ~effectPending

\* The effect ran for a position update made by a frame of a drag while the
\* menu is open: the items are laid out around the new position.
C17_Witness ==
  /\ mounted
  /\ lastOp = "effect"
  /\ isOpen
  /\ isDragging
  /\ buttonPosition # Pt(InitialX, viewport.h \div 2)
  /\ Len(itemPositions) = itemCount
  /\ itemPositions[1].cx = buttonPosition.x
  /\ itemPositions[1].cy = buttonPosition.y

\* C18: in every state each axis of buttonPosition lies within
\* [buttonSize/2 + padding, extent - buttonSize/2 - padding] of the current
\* viewport; stated for the axes on which that interval holds a value at all.
C18_AnchorInsideViewport ==
  mounted =>
    /\ minX <= maxX(viewport) =>
         (minX <= buttonPosition.x /\ buttonPosition.x <= maxX(viewport))
    /\ minY <= maxY(viewport) =>
         (minY <= buttonPosition.y /\ buttonPosition.y <= maxY(viewport))

\* C19: a pointer-down outside the button and the items' container while the
\* menu is open, and the click of an item, leave isOpen false; a pointer-down
\* inside the button or inside the container leaves isOpen as it was; and a
\* pointer-down outside while the menu is closed leaves it closed.
C19_OutsideClickCloses ==
  /\ lastOp = "docdown_outside" => ~isOpen
  /\ lastOp = "itemclick" => ~isOpen
  /\ lastOp \in {"docdown_item", "pointerdown"} => isOpen = openBefore

\* A pointer-down outside closed the open menu.
C19_Witness ==
  mounted /\ lastOp = "docdown_outside" /\ openBefore /\ ~isOpen

\* Two items at the same place: same centre, same radius, and angles that
\* differ by whole turns.
SamePlace(a, b) ==
  a.cx = b.cx /\ a.cy = b.cy /\ a.r = b.r /\ SameDirection(a.angle, b.angle)

\* C20: for itemCount = N > 1, with a sweepAngle of one full turn item 0 and
\* item N-1 have the same angle modulo a full turn and are at the same place;
\* with a sweepAngle strictly between 0 and a full turn the angles of the N
\* items are pairwise distinct modulo a full turn.
C20_FullTurnOverlaps ==
  (ItemsPlaced /\ itemCount > 1) =>
    /\ sweepAngle = 360 =>
         /\ SameDirection(itemPositions[1].angle, itemPositions[itemCount].angle)
         /\ SamePlace(itemPositions[1], itemPositions[itemCount])
    /\ (0 < sweepAngle /\ sweepAngle < 360) =>
         \A i \in 1..itemCount, j \in 1..itemCount :
           i # j => ~SameDirection(itemPositions[i].angle, itemPositions[j].angle)

\* Four items over the default full turn: the first at -90 degrees and the
\* last at 270 degrees, a different angle and the same place.
C20_Witness ==
  /\ ItemsPlaced
  /\ itemCount = 4
  /\ sweepAngle = DEFAULT_SWEEP_ANGLE
  /\ startAngle = DEFAULT_START_ANGLE
  /\ Len(itemPositions) = 4
  /\ ~RatEq(itemPositions[1].angle, itemPositions[4].angle)
  /\ SamePlace(itemPositions[1], itemPositions[4])

====================================================================
